---- MODULE Spec2Model ----
(***************************************************************************)
(* hypothesis.extra.django._impl: strategies for Django model instances    *)
(* (from_model) and Django forms (from_form), their rejection wrappers     *)
(* (_models_impl, _forms_impl) and the HypothesisTestCase mixin.           *)
(*                                                                         *)
(* Spec          one class object and the from_model / from_form calls     *)
(*               and draws made with it.                                   *)
(* SpecTestCase  one run of a test case that uses the mixin.               *)
(***************************************************************************)
EXTENDS Naturals, Sequences, FiniteSets, TLC

\* Bounds of the model.
MaxCalls == 2       \* from_model / from_form results alive at the same time
MaxExamples == 3    \* examples the engine generates in one test run

VARIABLES
    cls,    \* the class object handed to from_model / from_form
    calls,  \* the outcomes of the from_model / from_form calls made so far
    draw,   \* the last draw from one of the returned strategies
    tc      \* the test case: is_hypothesis_test, position, hook log

vars == <<cls, calls, draw, tc>>

Empty == [n \in {} |-> n]

\* sorted(...) of lines 97, 100, 201, 204: names in lexicographic order.
NameOrder == <<"a", "b", "k", "x", "y">>
Sorted(S) == SelectSeq(NameOrder, LAMBDA n : n \in S)

\* The events a call leaves behind, one per name of the sequence names.
Events(op, names) == [i \in 1..Len(names) |-> <<op, names[i]>>]

\* The dictionary d without the keys outside keep.
Restrict(d, keep) == [n \in DOMAIN d \cap keep |-> d[n]]

----------------------------------------------------------------------------
\* Values a keyword argument can carry.

\* hypothesis.infer, the sentinel (line 32); not a SearchStrategy.
infer == [tag |-> "infer", of |-> ""]
\* A strategy object the caller built and passed for keyword n.
Given(n) == [tag |-> "strategy", of |-> n]
\* Any other object passed for keyword n (a form constructor argument).
Plain(n) == [tag |-> "plain", of |-> n]
\* from_field(field): the strategy inferred for the field named n (line 31).
from_field(n) == [tag |-> "from_field", of |-> n]

\* isinstance(v, st.SearchStrategy), line 194.
IsSearchStrategy(v) == v.tag \in {"strategy", "from_field"}

\* The value an example draws from strategy s.
ValueOf(s) == [tag |-> "value", of |-> s.of, by |-> s.tag]

KwValue(n, t) ==
    CASE t = "strategy" -> Given(n)
      [] t = "infer"    -> infer
      [] OTHER          -> Plain(n)

\* All keyword dictionaries over the names in DOMAIN allowed, the value of
\* name n having one of the tags allowed[n].
Kwargs(allowed) ==
    UNION { { [n \in D |-> KwValue(n, ch[n])] :
                ch \in { c \in [D -> {"strategy", "infer", "plain"}] :
                           \A n \in D : c[n] \in allowed[n] } } :
            D \in SUBSET DOMAIN allowed }

----------------------------------------------------------------------------
\* The class objects.

Field(kind, auto, dflt, null, pk, dis) ==
    [kind |-> kind, auto_created |-> auto, has_default |-> dflt,
     null |-> null, primary_key |-> pk, disabled |-> dis]

\* Primary-key fields of a model: the implicit id, an explicit AutoField,
\* a natural key without and with a default.
PkFields ==
    { Field("AutoField", TRUE, FALSE, FALSE, TRUE, FALSE),
      Field("AutoField", FALSE, FALSE, FALSE, TRUE, FALSE),
      Field("CharField", FALSE, FALSE, FALSE, TRUE, FALSE),
      Field("CharField", FALSE, TRUE, FALSE, TRUE, FALSE) }

\* The other concrete fields of a model.
PlainFields ==
    { Field("CharField", FALSE, d, n, FALSE, FALSE) : d \in BOOLEAN, n \in BOOLEAN }
    \cup { Field("ForeignKey", FALSE, FALSE, n, FALSE, FALSE) : n \in BOOLEAN }

\* Subclasses of django.db.models.Model: concrete fields a (the primary key)
\* and b.
ModelClasses ==
    { [base |-> "Model",
       fields |-> [n \in {"a", "b"} |-> IF n = "a" THEN p ELSE q],
       accepts |-> {}, only_with_k |-> {}] :
      p \in PkFields, q \in PlainFields }

FormField(dis) == Field("FormField", FALSE, FALSE, FALSE, FALSE, dis)

\* Subclasses of django.forms.BaseForm: fields x and y, each disabled or not;
\* accepts are the keyword arguments its constructor takes besides data, and
\* the fields in only_with_k exist only on an instance built with k.
FormClasses ==
    { [base |-> "BaseForm",
       fields |-> [n \in {"x", "y"} |-> FormField(IF n = "x" THEN dx ELSE dy)],
       accepts |-> acc[1], only_with_k |-> acc[2]] :
      dx \in BOOLEAN, dy \in BOOLEAN,
      acc \in { <<{}, {}>>, <<{"k"}, {}>>, <<{"k"}, {"y"}>>, <<{"k", "x"}, {}>> } }

\* A class that is neither.
OtherClass == [base |-> "object", fields |-> Empty, accepts |-> {}, only_with_k |-> {}]

Classes == ModelClasses \cup FormClasses \cup {OtherClass}

----------------------------------------------------------------------------
\* What a call or a draw yields when there is nothing to yield.

NoStrategy ==
    [impl |-> "none", target |-> "", args |-> Empty, has_defaults |-> FALSE,
     defaults |-> Empty, wraps |-> OtherClass, form_kwargs |-> Empty]

NoInvocation ==
    [callee |-> "", kwargs |-> Empty, has_defaults |-> FALSE,
     defaults |-> Empty, wraps |-> OtherClass, form_kwargs |-> Empty]

\* A call that ended by raising exc.
Raised(fn, kw, exc, trace) ==
    [fn |-> fn, kwargs |-> kw, raised |-> exc, trace |-> trace,
     strategy |-> NoStrategy]

\* A call that returned the strategy s.
Returned(fn, kw, trace, s) ==
    [fn |-> fn, kwargs |-> kw, raised |-> "", trace |-> trace, strategy |-> s]

----------------------------------------------------------------------------
\* from_model, lines 63-120.

\* issubclass(model, dm.Model), line 93.
IsModelSubclass(c) == c.base = "Model"

\* Lines 97-99 and 201-203: a keyword whose value is infer gets from_field.
ResolveInfer(fs) ==
    [n \in DOMAIN fs |-> IF fs[n] = infer THEN from_field(n) ELSE fs[n]]

\* The condition of lines 103-104 without the test of the default.
ModelFieldIsInferred_IgnoresDefault(f) == ~f.auto_created

\* Lines 103-104: the fields that get a strategy when no keyword names them.
ModelFieldIsInferred(f) == ~f.auto_created /\ ~f.has_default

\* Lines 100-106: the names the second loop adds.
ModelMissing(c, kw) ==
    { n \in DOMAIN c.fields :
        n \notin DOMAIN kw /\ ModelFieldIsInferred(c.fields[n]) }

\* field_strategies after lines 96-106.
ModelFieldStrategies(c, kw) ==
    LET fs == ResolveInfer(kw)
    IN  [n \in DOMAIN fs \cup ModelMissing(c, kw) |->
            IF n \in DOMAIN fs THEN fs[n] ELSE from_field(n)]

\* Line 109: the names of field_strategies that are primary keys.
PrimaryKeysIn(c, fs) == { n \in DOMAIN fs : c.fields[n].primary_key }

\* update_or_create with the primary key left in defaults (no pop).
UpdateOrCreate_KeepsPk(c, fs, pk) ==
    [impl |-> "_models_impl", target |-> "update_or_create",
     args |-> Restrict(fs, {pk}), has_defaults |-> TRUE,
     defaults |-> fs, wraps |-> c, form_kwargs |-> Empty]

\* Lines 113-115: builds(model.objects.update_or_create, pk=..., defaults=...).
UpdateOrCreate(c, fs, pk) ==
    [impl |-> "_models_impl", target |-> "update_or_create",
     args |-> Restrict(fs, {pk}), has_defaults |-> TRUE,
     defaults |-> Restrict(fs, DOMAIN fs \ {pk}),
     wraps |-> c, form_kwargs |-> Empty]

\* Line 120: builds(model.objects.get_or_create, **field_strategies).
GetOrCreate(c, fs) ==
    [impl |-> "_models_impl", target |-> "get_or_create",
     args |-> fs, has_defaults |-> FALSE, defaults |-> Empty,
     wraps |-> c, form_kwargs |-> Empty]

\* Lines 108-120.
ModelStrategy(c, fs) ==
    LET pks == PrimaryKeysIn(c, fs)
    IN  IF pks # {} THEN UpdateOrCreate(c, fs, CHOOSE n \in pks : TRUE)
        ELSE GetOrCreate(c, fs)

\* What from_model touches, in order: the field metadata, from_field for the
\* infer keywords and for the missing fields, get_field up to the first
\* primary key, builds.
ModelTrace(c, kw) ==
    LET fs == ModelFieldStrategies(c, kw)
        inferred == { n \in DOMAIN kw : kw[n] = infer }
        order == Sorted(DOMAIN kw) \o Sorted(ModelMissing(c, kw))
        pkpos == { i \in 1..Len(order) : c.fields[order[i]].primary_key }
        upto == IF pkpos = {} THEN Len(order)
                ELSE CHOOSE i \in pkpos : \A j \in pkpos : i <= j
    IN  <<<<"concrete_fields", "">>>>
        \o Events("from_field", Sorted(inferred))
        \o Events("from_field", Sorted(ModelMissing(c, kw)))
        \o Events("get_field", SubSeq(order, 1, upto))
        \o <<<<"builds", ModelStrategy(c, fs).target>>>>

from_model_result(c, kw) ==
    IF ~IsModelSubclass(c)
    THEN Raised("from_model", kw, "InvalidArgument", <<>>)
    ELSE Returned("from_model", kw, ModelTrace(c, kw),
                  ModelStrategy(c, ModelFieldStrategies(c, kw)))

----------------------------------------------------------------------------
\* _FormWrap and from_form, lines 132-225.

\* The class attributes of _FormWrap itself, lines 146-147.
FormWrap_form_kwargs == Empty

\* from_form without the check of line 180.
IsFormSubclass_Unchecked(c) == TRUE

\* issubclass(form, df.BaseForm), line 180.
IsFormSubclass(c) == c.base = "BaseForm"

\* Lines 191-197: the split of the keyword arguments.
FieldStrategiesOf(kw) ==
    Restrict(kw, { n \in DOMAIN kw : IsSearchStrategy(kw[n]) })

FormKwargsOf(kw) ==
    Restrict(kw, { n \in DOMAIN kw : ~IsSearchStrategy(kw[n]) })

\* form(**form_kwargs), line 199: the constructor takes the keywords it
\* declares and raises TypeError for any other.
FormAccepts(c, fk) == DOMAIN fk \subseteq c.accepts

\* blank_form.fields, line 200: the fields of the instance built with fk.
FormFields(c, fk) ==
    Restrict(c.fields,
             { n \in DOMAIN c.fields : n \notin c.only_with_k \/ "k" \in DOMAIN fk })

\* The condition of line 207 without the test of disabled.
FormFieldIsInferred_IgnoresDisabled(f) == TRUE

\* Line 207: the fields that get a strategy when no keyword names them.
FormFieldIsInferred(f) == ~f.disabled

\* Lines 204-209: the names the second loop adds.
FormMissing(fields, fs) ==
    { n \in DOMAIN fields : n \notin DOMAIN fs /\ FormFieldIsInferred(fields[n]) }

\* field_strategies after lines 201-209.
FormFieldStrategies(fields, fs0) ==
    LET fs == ResolveInfer(fs0)
    IN  [n \in DOMAIN fs \cup FormMissing(fields, fs0) |->
            IF n \in DOMAIN fs THEN fs[n] ELSE from_field(n)]

\* The subclass created without its own form_kwargs: the attribute of
\* _FormWrap is found instead.
FormWrapSubclass_ClassDefaults(c, fk) ==
    [wraps |-> c, form_kwargs |-> FormWrap_form_kwargs]

\* Lines 223-224: type('ignored', (_FormWrap,), {'wraps': form,
\* 'form_kwargs': form_kwargs}).
FormWrapSubclass(c, fk) == [wraps |-> c, form_kwargs |-> fk]

\* Lines 223-225: builds(_form, **field_strategies).
FormStrategy(c, fs, fk) ==
    LET _form == FormWrapSubclass(c, fk)
    IN  [impl |-> "_forms_impl", target |-> "_FormWrap",
         args |-> fs, has_defaults |-> FALSE, defaults |-> Empty,
         wraps |-> _form.wraps, form_kwargs |-> _form.form_kwargs]

FormTrace(c, kw) ==
    LET fs0 == FieldStrategiesOf(kw)
        fields == FormFields(c, FormKwargsOf(kw))
        inferred == { n \in DOMAIN fs0 : fs0[n] = infer }
    IN  <<<<"instantiate_form", "">>, <<"fields", "">>>>
        \o Events("from_field", Sorted(inferred))
        \o Events("from_field", Sorted(FormMissing(fields, fs0)))
        \o <<<<"type", "_FormWrap">>, <<"builds", "_FormWrap">>>>

from_form_result(c, kw) ==
    IF ~IsFormSubclass(c)
    THEN Raised("from_form", kw, "InvalidArgument", <<<<"print", "__mro__">>>>)
    ELSE IF ~FormAccepts(c, FormKwargsOf(kw))
    THEN Raised("from_form", kw, "TypeError", <<<<"instantiate_form", "">>>>)
    ELSE Returned("from_form", kw, FormTrace(c, kw),
                  FormStrategy(c,
                      FormFieldStrategies(FormFields(c, FormKwargsOf(kw)),
                                          FieldStrategiesOf(kw)),
                      FormKwargsOf(kw)))

----------------------------------------------------------------------------
\* Drawing from the returned strategies, lines 123-129 and 228-234.

\* What the call made by builds() can do: return, or raise one of these.
Outcomes == {"ok", "IntegrityError", "ValidationError", "TypeError"}

NoResult == [kind |-> "none", exc |-> "", value |-> Empty]
Return(v) == [kind |-> "returned", exc |-> "", value |-> v]
\* reject(), line 129 and 234: the example is discarded and another is tried.
Reject == [kind |-> "rejected", exc |-> "", value |-> Empty]
Propagate(exc) == [kind |-> "raised", exc |-> exc, value |-> Empty]

NoDraw ==
    [strategy |-> NoStrategy, outcome |-> "", invocation |-> NoInvocation,
     result |-> NoResult]

\* builds(target, **args): one value drawn per argument strategy (and per
\* entry of the fixed_dictionaries of defaults), then the call of target.
Invocation(s) ==
    [callee |-> s.target,
     kwargs |-> [n \in DOMAIN s.args |-> ValueOf(s.args[n])],
     has_defaults |-> s.has_defaults,
     defaults |-> [n \in DOMAIN s.defaults |-> ValueOf(s.defaults[n])],
     wraps |-> s.wraps, form_kwargs |-> s.form_kwargs]

\* What get_or_create / update_or_create return: (instance, created).
ManagerResult(inv, created) ==
    [instance |-> [n \in DOMAIN inv.kwargs \cup DOMAIN inv.defaults |->
                      IF n \in DOMAIN inv.kwargs THEN inv.kwargs[n]
                      ELSE inv.defaults[n]],
     created |-> created]

\* _models_impl without its except clause.
models_impl_Uncaught(outcome, pair) ==
    IF outcome = "ok" THEN Return(pair.instance) ELSE Propagate(outcome)

\* _models_impl, lines 126-129.
models_impl(outcome, pair) ==
    CASE outcome = "ok"             -> Return(pair.instance)
      [] outcome = "IntegrityError" -> Reject
      [] OTHER                      -> Propagate(outcome)

\* _FormWrap.__new__, lines 149-152: self.wraps(data=kwargs, **self.form_kwargs).
FormWrap_new(inv) ==
    [wraps |-> inv.wraps, data |-> inv.kwargs, kwargs |-> inv.form_kwargs]

\* _forms_impl with a bare except.
forms_impl_CatchesAll(outcome, form) ==
    IF outcome = "ok" THEN Return(form) ELSE Reject

\* _forms_impl, lines 231-234.
forms_impl(outcome, form) ==
    CASE outcome = "ok"              -> Return(form)
      [] outcome = "ValidationError" -> Reject
      [] OTHER                       -> Propagate(outcome)

----------------------------------------------------------------------------
\* The calls the model makes.

\* The keyword arguments tried: for a model class a strategy or infer for
\* each concrete field; for a form class a strategy, infer or another object
\* for field x and an object or a strategy for k; for a class the function refuses, none or
\* one.
KwargsFor(fn, c) ==
    IF fn = "from_model" /\ IsModelSubclass(c)
    THEN Kwargs([a |-> {"strategy", "infer"}, b |-> {"strategy", "infer"}])
    ELSE IF fn = "from_form" /\ IsFormSubclass(c)
    THEN Kwargs([x |-> {"strategy", "infer", "plain"}, k |-> {"plain", "strategy"}])
    ELSE {Empty, [x |-> Given("x")]}

TcNew(base, hyp) ==
    [base |-> base, is_hypothesis_test |-> hyp, pc |-> "new", via |-> "",
     log |-> <<>>, examples |-> 0]

Init ==
    /\ cls \in Classes
    /\ calls = {}
    /\ draw = NoDraw
    /\ tc = TcNew("TestCase", FALSE)

\* from_model(cls, **kw).
FromModel ==
    \E kw \in KwargsFor("from_model", cls) :
        /\ Cardinality(calls) < MaxCalls
        /\ calls' = calls \cup {from_model_result(cls, kw)}
        /\ UNCHANGED <<cls, draw, tc>>

\* from_form(cls, **kw).
FromForm ==
    \E kw \in KwargsFor("from_form", cls) :
        /\ Cardinality(calls) < MaxCalls
        /\ calls' = calls \cup {from_form_result(cls, kw)}
        /\ UNCHANGED <<cls, draw, tc>>

\* One example drawn from a strategy from_model returned.
DrawModel ==
    \E c \in calls, outcome \in Outcomes, created \in BOOLEAN :
        /\ c.strategy.impl = "_models_impl"
        /\ LET inv == Invocation(c.strategy)
           IN  draw' = [strategy |-> c.strategy, outcome |-> outcome,
                        invocation |-> inv,
                        result |-> models_impl(outcome, ManagerResult(inv, created))]
        /\ UNCHANGED <<cls, calls, tc>>

\* One example drawn from a strategy from_form returned.
DrawForm ==
    \E c \in calls, outcome \in Outcomes :
        /\ c.strategy.impl = "_forms_impl"
        /\ LET inv == Invocation(c.strategy)
           IN  draw' = [strategy |-> c.strategy, outcome |-> outcome,
                        invocation |-> inv,
                        result |-> forms_impl(outcome, FormWrap_new(inv))]
        /\ UNCHANGED <<cls, calls, tc>>

Next == FromModel \/ FromForm \/ DrawModel \/ DrawForm

Spec == Init /\ [][Next]_vars

----------------------------------------------------------------------------
\* HypothesisTestCase, lines 40-60: one run of a test case whose class mixes
\* it into django.test.TestCase or django.test.TransactionTestCase.

Append1(t, e) == [t EXCEPT !.log = Append(t.log, e)]

\* __call__ that always takes the branch of line 52.
CallTarget_AlwaysSimple(is_hypothesis_test) == "SimpleTestCase"

\* Lines 48-52: the __call__ that HypothesisTestCase.__call__ delegates to.
CallTarget(is_hypothesis_test) ==
    IF is_hypothesis_test THEN "unittest.TestCase" ELSE "SimpleTestCase"

InitTestCase ==
    /\ cls = OtherClass
    /\ calls = {}
    /\ draw = NoDraw
    /\ tc \in { TcNew(base, hyp) :
                  base \in {"TestCase", "TransactionTestCase"}, hyp \in BOOLEAN }

\* HypothesisTestCase.__call__, lines 47-52.
Call ==
    /\ tc.pc = "new"
    /\ LET via == CallTarget(tc.is_hypothesis_test)
       IN  tc' = [tc EXCEPT !.via = via,
                            !.pc = IF via = "SimpleTestCase" THEN "pre" ELSE "run"]
    /\ UNCHANGED <<cls, calls, draw>>

\* django's SimpleTestCase.__call__, reached from line 52: _pre_setup() before
\* the unittest run.
SimplePreSetup ==
    /\ tc.pc = "pre"
    /\ tc' = [Append1(tc, "_pre_setup") EXCEPT !.pc = "run"]
    /\ UNCHANGED <<cls, calls, draw>>

\* unittest.TestCase.__call__, reached from line 50 or from SimpleTestCase:
\* the test method runs; a hypothesis test hands over to the engine, any other
\* test is its body, run once.
RunTestMethod ==
    /\ tc.pc = "run"
    /\ \/ /\ tc.is_hypothesis_test
          /\ tc' = [tc EXCEPT !.pc = "engine"]
       \/ /\ ~tc.is_hypothesis_test
          /\ \E r \in {"test_passed", "test_failed"} :
                tc' = [Append1(tc, r) EXCEPT !.pc = "ran"]
    /\ UNCHANGED <<cls, calls, draw>>

\* setup_example, lines 41-42, which the engine calls before each example.
setup_example ==
    /\ tc.pc = "engine"
    /\ tc.examples < MaxExamples
    /\ tc' = [Append1(tc, "_pre_setup") EXCEPT !.pc = "example"]
    /\ UNCHANGED <<cls, calls, draw>>

\* The engine runs the test body on the example.
RunExample ==
    /\ tc.pc = "example"
    /\ \E r \in {"example_passed", "example_failed"} :
          tc' = [Append1(tc, r) EXCEPT !.pc = "teardown"]
    /\ UNCHANGED <<cls, calls, draw>>

\* teardown_example, lines 44-45, which the engine calls after each example.
teardown_example ==
    /\ tc.pc = "teardown"
    /\ tc' = [Append1(tc, "_post_teardown") EXCEPT
                 !.pc = "engine", !.examples = tc.examples + 1]
    /\ UNCHANGED <<cls, calls, draw>>

\* The engine has no more examples to try.
EngineDone ==
    /\ tc.pc = "engine"
    /\ tc' = [tc EXCEPT !.pc = "ran"]
    /\ UNCHANGED <<cls, calls, draw>>

\* The __call__ delegated to returns; SimpleTestCase.__call__ ends with
\* _post_teardown().
Finish ==
    /\ tc.pc = "ran"
    /\ tc' = [(IF tc.via = "SimpleTestCase" THEN Append1(tc, "_post_teardown")
               ELSE tc) EXCEPT !.pc = "done"]
    /\ UNCHANGED <<cls, calls, draw>>

NextTestCase ==
    \/ Call \/ SimplePreSetup \/ RunTestMethod \/ setup_example
    \/ RunExample \/ teardown_example \/ EngineDone \/ Finish

SpecTestCase == InitTestCase /\ [][NextTestCase]_vars

----------------------------------------------------------------------------
\* Properties.

\* The calls that returned a strategy.
ModelCalls == { c \in calls : c.fn = "from_model" /\ c.raised = "" }
FormCalls == { c \in calls : c.fn = "from_form" /\ c.raised = "" }

\* The strategy a from_model result holds for each field, lookup or default.
StrategiesOf(s) ==
    [n \in DOMAIN s.args \cup DOMAIN s.defaults |->
        IF n \in DOMAIN s.args THEN s.args[n] ELSE s.defaults[n]]

ModelDraw == draw.strategy.impl = "_models_impl"
FormDraw == draw.strategy.impl = "_forms_impl"

\* C1 as stated: a from_model draw that hits IntegrityError is rejected, a
\* from_form draw that hits ValidationError is rejected, and no draw from
\* either strategy ever raises IntegrityError or ValidationError to its caller.
C1_NeitherKindEverRaised ==
    /\ (ModelDraw /\ draw.outcome = "IntegrityError") => draw.result = Reject
    /\ (FormDraw /\ draw.outcome = "ValidationError") => draw.result = Reject
    /\ draw.result.kind = "raised"
          => draw.result.exc \notin {"IntegrityError", "ValidationError"}

\* C1 as amended: a from_model draw that hits IntegrityError is rejected and
\* never raises IntegrityError; a from_form draw that hits ValidationError is
\* rejected and never raises ValidationError.
C1_OwnKindRejected ==
    /\ (ModelDraw /\ draw.outcome = "IntegrityError") => draw.result = Reject
    /\ (FormDraw /\ draw.outcome = "ValidationError") => draw.result = Reject
    /\ ModelDraw => draw.result # Propagate("IntegrityError")
    /\ FormDraw => draw.result # Propagate("ValidationError")

C1_Witness ==
    /\ ModelDraw
    /\ draw.outcome = "IntegrityError"
    /\ draw.result.kind = "rejected"

\* The fields of a from_model call that end up with a strategy, and the
\* primary keys among them, read off the class and the keywords.
Generated(c) ==
    { n \in DOMAIN cls.fields :
        \/ n \in DOMAIN c.kwargs
        \/ ~cls.fields[n].auto_created /\ ~cls.fields[n].has_default }

GeneratedPk(c) == { n \in Generated(c) : cls.fields[n].primary_key }

\* The primary keys the caller passed a strategy for.
SuppliedPk(c) ==
    { n \in DOMAIN c.kwargs :
        cls.fields[n].primary_key /\ c.kwargs[n].tag = "strategy" }

\* A draw whose primary keys are pks used update_or_create with the primary
\* key as only lookup and every other generated value in defaults; with no
\* primary key it used get_or_create on all generated values.
PersistedBy(c, pks) ==
    LET inv == draw.invocation
    IN  IF pks # {}
        THEN /\ inv.callee = "update_or_create"
             /\ DOMAIN inv.kwargs = pks
             /\ inv.has_defaults
             /\ DOMAIN inv.defaults = Generated(c) \ pks
             /\ \A n \in Generated(c) \ pks : inv.defaults[n].of = n
             /\ \A n \in pks : inv.kwargs[n].of = n
        ELSE /\ inv.callee = "get_or_create"
             /\ DOMAIN inv.kwargs = Generated(c)
             /\ ~inv.has_defaults
             /\ \A n \in Generated(c) : inv.kwargs[n].of = n

\* C2 as stated: update_or_create (primary key the only lookup, the rest in
\* defaults) exactly when the caller supplied a strategy for a primary-key
\* field, get_or_create on all generated fields otherwise.
C2_UpdateIffCallerSupplied ==
    \A c \in ModelCalls :
        (ModelDraw /\ draw.strategy = c.strategy) => PersistedBy(c, SuppliedPk(c))

\* C2 as amended: update_or_create exactly when a primary-key field has a
\* strategy of any origin (passed by the caller, requested with infer, or
\* inferred because the key is not auto-created and has no default),
\* get_or_create on all generated fields otherwise.
C2_UpdateIffPkGenerated ==
    \A c \in ModelCalls :
        (ModelDraw /\ draw.strategy = c.strategy) => PersistedBy(c, GeneratedPk(c))

C2_Witness ==
    \E c \in ModelCalls :
        /\ ModelDraw /\ draw.strategy = c.strategy
        /\ draw.invocation.callee = "update_or_create"
        /\ SuppliedPk(c) = {}
        /\ draw.invocation.defaults # Empty

InstanceFields(c) ==
    { n \in DOMAIN cls.fields :
        \/ n \notin cls.only_with_k
        \/ "k" \in DOMAIN c.kwargs /\ c.kwargs["k"].tag = "plain" }

\* C4: a field of the form instance gets from_field iff it is not disabled and
\* no strategy was passed for it; a passed strategy is used unchanged, also
\* for a disabled field; a disabled field without one is absent from the data.
C4_FormFieldResolution ==
    \A c \in FormCalls :
        LET fs == c.strategy.args
            kw == c.kwargs
        IN  \A n \in InstanceFields(c) :
              LET passed == n \in DOMAIN kw /\ kw[n].tag = "strategy"
              IN  /\ (n \in DOMAIN fs /\ fs[n] = from_field(n))
                         <=> (~cls.fields[n].disabled /\ ~passed)
                  /\ passed => (n \in DOMAIN fs /\ fs[n] = kw[n])
                  /\ (cls.fields[n].disabled /\ ~passed) =>
                        /\ n \notin DOMAIN fs
                        /\ (FormDraw /\ draw.strategy = c.strategy)
                              => n \notin DOMAIN draw.invocation.kwargs

C4_Witness ==
    \E c \in FormCalls :
        /\ cls.fields["x"].disabled /\ cls.fields["y"].disabled
        /\ "x" \in DOMAIN c.kwargs /\ c.kwargs["x"] = Given("x")
        /\ FormDraw /\ draw.strategy = c.strategy
        /\ draw.result.kind = "returned"
        /\ DOMAIN draw.result.value.data = {"x"}

\* What a call does before it may raise InvalidArgument.
Inspections ==
    {"concrete_fields", "fields", "instantiate_form", "from_field",
     "get_field", "type", "builds"}

\* C5: from_model of a class that is no Model subclass, and from_form of a
\* class that is no BaseForm subclass, raise InvalidArgument before any field
\* metadata is read, the form instantiated, a strategy built or a row
\* touched, and nothing is ever drawn or rejected for it.
C5_InvalidArgumentFirst ==
    \A c \in calls :
        (\/ c.fn = "from_model" /\ cls.base # "Model"
         \/ c.fn = "from_form" /\ cls.base # "BaseForm")
        => /\ c.raised = "InvalidArgument"
           /\ \A i \in 1..Len(c.trace) : c.trace[i][1] \notin Inspections
           /\ c.strategy = NoStrategy
           /\ draw.result.kind # "none" => draw.strategy # c.strategy

C5_Witness ==
    /\ cls.base = "Model"
    /\ \E c \in calls : c.fn = "from_form" /\ c.raised = "InvalidArgument"
    /\ \E c \in calls : c.fn = "from_model" /\ c.raised = ""
    /\ draw.result.kind = "returned"

\* C6: infer passed for a form field makes from_form infer the field's
\* strategy, and infer is not handed to the form constructor.
C6_InferIsAFieldRequest ==
    \A c \in calls :
        (/\ c.fn = "from_form"
         /\ cls.base = "BaseForm"
         /\ "x" \in DOMAIN c.kwargs
         /\ c.kwargs["x"] = infer)
        => /\ c.raised = ""
           /\ "x" \in DOMAIN c.strategy.args
           /\ c.strategy.args["x"] = from_field("x")
           /\ "x" \notin DOMAIN c.strategy.form_kwargs

\* C7: from_model never calls from_field for an AutoField, a nullable field,
\* a foreign key, or a field with a keyword other than infer.
C7_NoInferenceForDocumentedKinds ==
    \A c \in ModelCalls :
        \A n \in DOMAIN cls.fields :
            LET f == cls.fields[n]
            IN  (\/ f.kind = "AutoField"
                 \/ f.null
                 \/ f.kind = "ForeignKey"
                 \/ n \in DOMAIN c.kwargs /\ c.kwargs[n] # infer)
                => \A i \in 1..Len(c.trace) : c.trace[i] # <<"from_field", n>>

\* The hooks of log, in order.
Hooks(log) == SelectSeq(log, LAMBDA e : e \in {"_pre_setup", "_post_teardown"})

\* _pre_setup and _post_teardown alternate in h, starting with _pre_setup.
Alternating(h) ==
    \A i \in 1..Len(h) :
        h[i] = IF i % 2 = 1 THEN "_pre_setup" ELSE "_post_teardown"

\* C8: a hypothesis test goes through the plain unittest __call__ and each
\* example sits between one _pre_setup and one _post_teardown, the hooks
\* alternating and never nested; any other test goes through
\* SimpleTestCase.__call__ with one _pre_setup and one _post_teardown around it.
C8_HooksBracketExamples ==
    /\ Alternating(Hooks(tc.log))
    /\ tc.pc # "new" =>
          tc.via = (IF tc.is_hypothesis_test THEN "unittest.TestCase"
                    ELSE "SimpleTestCase")
    /\ \A i \in 1..Len(tc.log) :
          tc.log[i] \in {"example_passed", "example_failed",
                         "test_passed", "test_failed"}
          => /\ i > 1 /\ tc.log[i - 1] = "_pre_setup"
             /\ i < Len(tc.log) => tc.log[i + 1] = "_post_teardown"
    /\ tc.pc = "done" =>
          /\ Len(tc.log) % 3 = 0
          /\ Len(Hooks(tc.log)) =
                2 * (IF tc.is_hypothesis_test THEN tc.examples ELSE 1)

C8_Witness ==
    /\ tc.pc = "done"
    /\ tc.is_hypothesis_test
    /\ tc.examples >= 2
    /\ tc.base = "TransactionTestCase"

\* C9: the keywords of a from_form call split into field strategies (the
\* strategies) and form kwargs (everything else), and every form drawn from
\* the call's strategy is built from the values of that call's field
\* strategies as data and from that call's form kwargs.
C9_FormBuiltFromItsOwnCall ==
    \A c \in FormCalls :
        LET strategies == { n \in DOMAIN c.kwargs : c.kwargs[n].tag = "strategy" }
            others == DOMAIN c.kwargs \ strategies
            s == c.strategy
            asField == { n \in DOMAIN c.kwargs :
                           n \in DOMAIN s.args /\ s.args[n] = c.kwargs[n] }
            asKwarg == { n \in DOMAIN c.kwargs :
                           n \in DOMAIN s.form_kwargs
                           /\ s.form_kwargs[n] = c.kwargs[n] }
        IN  /\ asField = strategies
            /\ asKwarg = others
            /\ DOMAIN s.form_kwargs = others
            /\ (FormDraw /\ draw.strategy = s /\ draw.result.kind = "returned") =>
                  LET form == draw.result.value
                  IN  /\ form.wraps = cls
                      /\ DOMAIN form.data = DOMAIN s.args
                      /\ \A n \in DOMAIN s.args : form.data[n] = ValueOf(s.args[n])
                      /\ DOMAIN form.kwargs = others
                      /\ \A n \in others : form.kwargs[n] = c.kwargs[n]

C9_Witness ==
    \E c1 \in FormCalls, c2 \in FormCalls :
        /\ c1.strategy.form_kwargs = Empty
        /\ c2.strategy.form_kwargs # Empty
        /\ c2.strategy.args # Empty
        /\ FormDraw /\ draw.strategy = c2.strategy
        /\ draw.result.kind = "returned"

\* C10: a from_model draw propagates every exception but IntegrityError
\* unchanged, a from_form draw every exception but ValidationError; a draw
\* that succeeds is never rejected, and a from_model draw returns the
\* instance, not the (instance, created) pair or its flag.
C10_OnlyOwnKindTranslated ==
    /\ (ModelDraw /\ draw.outcome \notin {"ok", "IntegrityError"})
          => draw.result = Propagate(draw.outcome)
    /\ (FormDraw /\ draw.outcome \notin {"ok", "ValidationError"})
          => draw.result = Propagate(draw.outcome)
    /\ draw.outcome = "ok" => draw.result.kind = "returned"
    /\ (ModelDraw /\ draw.outcome = "ok") =>
          LET inv == draw.invocation
              row == draw.result.value
          IN  /\ DOMAIN row = DOMAIN inv.kwargs \cup DOMAIN inv.defaults
              /\ \A n \in DOMAIN inv.kwargs : row[n] = inv.kwargs[n]
              /\ \A n \in DOMAIN inv.defaults : row[n] = inv.defaults[n]

C10_Witness ==
    /\ FormDraw
    /\ draw.outcome = "IntegrityError"
    /\ draw.result = Propagate("IntegrityError")

====
